---- MODULE Spec2Model ----
(***************************************************************************)
(* A calculator session: the bounded history (app/history.py), the         *)
(* memento caretaker with its undo and redo stacks                         *)
(* (app/calculator_memento.py), the operations (app/operations.py), the    *)
(* input validators (app/input_validators.py) and the Calculator that      *)
(* orchestrates them and notifies its observers (app/calculator.py).       *)
(*                                                                         *)
(* Numbers: operands are integer-valued floats; an operation's exact value *)
(* is a rational [num, den]; the result stored in a record is that value    *)
(* rounded half-to-even to config.precision decimals, held as an integer   *)
(* count of 10^-precision (with precision 0: the rounded value itself).    *)
(***************************************************************************)
EXTENDS Integers, Sequences, FiniteSets, TLC

VARIABLES config, history, caretaker, file, faults, lastOp, outcome, notified,
          pre, heap, call

vars ==
    <<config, history, caretaker, file, faults, lastOp, outcome, notified, pre,
      heap, call>>

----------------------------------------------------------------------------
(* Bounds of the model                                                     *)

\* max_history_size is drawn from 0..MaxHistoryBound
MaxHistoryBound == 1
\* perform is not offered once the two stacks hold this many snapshots
MaxSnapshots == 2
\* max_size of a history store used on its own, and of the session followed
\* by object identity, is drawn from 0..MaxStoreSize
MaxStoreSize == 2
\* an operation called on its own is handed whole operands of
\* -MaxOperand..MaxOperand, and the power operation also the exponents n/2
\* for the odd n of -MaxHalves..MaxHalves
MaxOperand == 7
MaxHalves == 3

\* register_observer is called while the Calculator holds fewer than
\* MaxObservers observers
MaxObservers == 4

(* Configuration values of the modelled session                            *)
Precision == 0
MaxInputValue == 2

----------------------------------------------------------------------------
(* Inputs                                                                  *)

\* what a caller hands to perform_calculation as an operand: a numeric
\* value, or text that float() rejects
Num(v) == [numeric |-> TRUE, val |-> v]
NotANumber == [numeric |-> FALSE, val |-> 0]

OperandsA == {Num(1), Num(2), Num(3), NotANumber}
OperandsB == {Num(0), Num(2), Num(-3), NotANumber}

\* the first word of a line typed at the prompt that is none of the fixed
\* commands; "sqrt" is not a registered operation
OperationNames == {"divide", "sqrt"}

\* the call made last on an operation, the factory or a validator on its
\* own, with what it was handed and what it yielded; NoCall in a session
\* that makes none
NoCall == [fn |-> "none", done |-> FALSE]

----------------------------------------------------------------------------
(* app/operations.py                                                       *)

Abs(x) == IF x < 0 THEN -x ELSE x

\* what a call yields: a value or a raised error. A real value is the
\* rational num/den (den > 0) when exact is TRUE, and lies strictly between
\* num and num + 1 (den = 1) when exact is FALSE; a complex value is kept
\* by its kind alone
Ok(n, d) ==
    [ok |-> TRUE, kind |-> "real", exact |-> TRUE, num |-> n, den |-> d,
     error |-> "", msg |-> ""]
Inexact(floor) ==
    [ok |-> TRUE, kind |-> "real", exact |-> FALSE, num |-> floor, den |-> 1,
     error |-> "", msg |-> ""]
Complex ==
    [ok |-> TRUE, kind |-> "complex", exact |-> FALSE, num |-> 0, den |-> 1,
     error |-> "", msg |-> ""]
Raise(kind, msg) ==
    [ok |-> FALSE, kind |-> "", exact |-> FALSE, num |-> 0, den |-> 1,
     error |-> kind, msg |-> msg]

\* OperationFactory._operations: the registry names
_operations ==
    {"add", "subtract", "multiply", "divide", "power", "root", "modulus",
     "int_divide", "percent", "abs_diff"}

\* OperationFactory.get_available_operations
get_available_operations == _operations

\* OperationFactory.create_operation on a lowercase name
create_operation(operation_name) ==
    IF operation_name \in _operations
    THEN [ok |-> TRUE, operation |-> operation_name, error |-> "", msg |-> ""]
    ELSE [ok |-> FALSE, operation |-> "", error |-> "OperationError",
          msg |-> "Unknown operation"]

\* an operation name as the caller spells it: the sequence of its characters
Spelling(name) ==
    CASE name = "add" -> <<"a", "d", "d">>
      [] name = "subtract" -> <<"s", "u", "b", "t", "r", "a", "c", "t">>
      [] name = "multiply" -> <<"m", "u", "l", "t", "i", "p", "l", "y">>
      [] name = "divide" -> <<"d", "i", "v", "i", "d", "e">>
      [] name = "power" -> <<"p", "o", "w", "e", "r">>
      [] name = "root" -> <<"r", "o", "o", "t">>
      [] name = "modulus" -> <<"m", "o", "d", "u", "l", "u", "s">>
      [] name = "int_divide" -> <<"i", "n", "t", "_", "d", "i", "v", "i", "d", "e">>
      [] name = "percent" -> <<"p", "e", "r", "c", "e", "n", "t">>
      [] name = "abs_diff" -> <<"a", "b", "s", "_", "d", "i", "f", "f">>

\* the letters that occur in the registry names, lower and upper case
Letters ==
    <<"a", "b", "c", "d", "e", "f", "i", "l", "m", "n", "o", "p", "r", "s",
      "t", "u", "v", "w", "y">>
Capitals ==
    <<"A", "B", "C", "D", "E", "F", "I", "L", "M", "N", "O", "P", "R", "S",
      "T", "U", "V", "W", "Y">>

\* str.upper and str.lower on one character
Upper(c) ==
    IF \E i \in 1..Len(Letters) : Letters[i] = c
    THEN Capitals[CHOOSE i \in 1..Len(Letters) : Letters[i] = c]
    ELSE c
Lower(c) ==
    IF \E i \in 1..Len(Capitals) : Capitals[i] = c
    THEN Letters[CHOOSE i \in 1..Len(Capitals) : Capitals[i] = c]
    ELSE c

\* str.lower
lower(text) == [i \in 1..Len(text) |-> Lower(text[i])]

Unknown ==
    [ok |-> FALSE, operation |-> "", error |-> "OperationError",
     msg |-> "Unknown operation"]

\* _operations.get(key) on a spelled key: the registry name spelled so
get(key) ==
    LET found == {name \in _operations : Spelling(name) = key}
    IN  IF found = {} THEN Unknown
        ELSE [ok |-> TRUE, operation |-> CHOOSE name \in found : TRUE,
              error |-> "", msg |-> ""]

\* create_operation looking the name up as it is spelled
create_operation_case_sensitive(operation_name) == get(operation_name)

\* OperationFactory.create_operation on a name as the caller spells it
create_operation_spelled(operation_name) == get(lower(operation_name))

AddOperation(a, b) == Ok(a + b, 1)

SubtractOperation(a, b) == Ok(a - b, 1)

MultiplyOperation(a, b) == Ok(a * b, 1)

DivideOperation(a, b) ==
    IF b = 0 THEN Raise("OperationError", "Cannot divide by zero")
    ELSE IF b > 0 THEN Ok(a, b) ELSE Ok(-a, -b)

\* a ** k for a whole k >= 0
RECURSIVE IPow(_, _)
IPow(a, k) == IF k = 0 THEN 1 ELSE a * IPow(a, k - 1)

\* the largest whole r with r ** d <= v, for v >= 0 and d >= 1
IRoot(v, d) == CHOOSE r \in 0..v : IPow(r, d) <= v /\ IPow(r + 1, d) > v

\* the ** operator on the float a and the float n/d (d > 0, n/d in lowest
\* terms), for operands small enough that no float overflows: zero to a
\* negative power raises ZeroDivisionError, a negative base to a fractional
\* power yields a complex number, everything else a float
pow(a, n, d) ==
    IF a = 0 /\ n < 0
    THEN Raise("ZeroDivisionError", "0.0 cannot be raised to a negative power")
    ELSE IF d = 1
         THEN IF n >= 0 THEN Ok(IPow(a, n), 1)
              ELSE IF IPow(a, -n) > 0 THEN Ok(1, IPow(a, -n))
              ELSE Ok(-1, -IPow(a, -n))
    ELSE IF a < 0 THEN Complex
    ELSE IF a = 0 THEN Ok(0, 1)
    ELSE LET v == IPow(a, Abs(n))
             r == IRoot(v, d)
         IN  IF IPow(r, d) = v
             THEN IF n > 0 THEN Ok(r, 1) ELSE Ok(1, r)
             ELSE IF n > 0 THEN Inexact(r) ELSE Inexact(0)

\* try: ... except (OverflowError, ValueError) as e: raise OperationError
except_overflow_or_value(value, msg) ==
    IF ~value.ok /\ value.error \in {"OverflowError", "ValueError"}
    THEN Raise("OperationError", msg)
    ELSE value

\* PowerOperation.execute on the base a and the exponent n/d
PowerOperation(a, n, d) ==
    except_overflow_or_value(pow(a, n, d), "Power operation failed")

\* RootOperation.execute with the zero check after the sign check
RootOperation_checks_sign_first(a, b) ==
    IF a < 0 /\ b % 2 = 0
    THEN Raise("OperationError", "Cannot calculate even root of negative number")
    ELSE IF b = 0 THEN Raise("OperationError", "Cannot calculate 0th root")
    ELSE except_overflow_or_value(IF b > 0 THEN pow(a, 1, b) ELSE pow(a, -1, -b),
                                  "Root operation failed")

\* RootOperation.execute: a ** (1 / b)
RootOperation(a, b) ==
    IF b = 0 THEN Raise("OperationError", "Cannot calculate 0th root")
    ELSE IF a < 0 /\ b % 2 = 0
         THEN Raise("OperationError", "Cannot calculate even root of negative number")
    ELSE except_overflow_or_value(IF b > 0 THEN pow(a, 1, b) ELSE pow(a, -1, -b),
                                  "Root operation failed")

\* ModulusOperation.execute without its zero check: a % 0 raises
ModulusOperation_unguarded(a, b) ==
    IF b = 0 THEN Raise("ZeroDivisionError", "float modulo")
    ELSE IF b > 0 THEN Ok(a % b, 1) ELSE Ok(-((-a) % (-b)), 1)

\* a % b as C's fmod computes it: the remainder has the sign of the dividend
ModulusOperation_sign_of_dividend(a, b) ==
    IF b = 0 THEN Raise("OperationError", "Cannot perform modulus with zero divisor")
    ELSE IF a >= 0 THEN Ok(a % Abs(b), 1) ELSE Ok(-((-a) % Abs(b)), 1)

\* a % b: the remainder has the sign of the divisor
ModulusOperation(a, b) ==
    IF b = 0 THEN Raise("OperationError", "Cannot perform modulus with zero divisor")
    ELSE IF b > 0 THEN Ok(a % b, 1) ELSE Ok(-((-a) % (-b)), 1)

\* a // b rounding toward zero
IntDivideOperation_truncates(a, b) ==
    IF b = 0 THEN Raise("OperationError", "Cannot divide by zero")
    ELSE IF (a < 0) = (b < 0) THEN Ok(Abs(a) \div Abs(b), 1)
    ELSE Ok(-(Abs(a) \div Abs(b)), 1)

\* a // b on integer-valued floats: the floor of the quotient
IntDivideOperation(a, b) ==
    IF b = 0 THEN Raise("OperationError", "Cannot divide by zero")
    ELSE IF b > 0 THEN Ok(a \div b, 1) ELSE Ok((-a) \div (-b), 1)

\* (a / b) * 100
PercentOperation(a, b) ==
    IF b = 0
    THEN Raise("OperationError", "Cannot calculate percentage with zero denominator")
    ELSE IF b > 0 THEN Ok(100 * a, b) ELSE Ok(-(100 * a), -b)

\* a - b without abs()
AbsDiffOperation_signed(a, b) == Ok(a - b, 1)

AbsDiffOperation(a, b) == Ok(Abs(a - b), 1)

\* a float that need not be finite: a whole value, NaN, or the infinity of
\* the given sign (1 or -1)
Finite(v) == [class |-> "finite", val |-> v]
NaN == [class |-> "nan", val |-> 0]
Infinity(sign) == [class |-> "inf", val |-> sign]

\* float.__sub__: NaN if an operand is NaN or both are the same infinity
float_sub(a, b) ==
    IF a.class = "nan" \/ b.class = "nan" THEN NaN
    ELSE IF a.class = "inf"
         THEN IF b.class = "inf" /\ b.val = a.val THEN NaN ELSE a
    ELSE IF b.class = "inf" THEN Infinity(-b.val)
    ELSE Finite(a.val - b.val)

\* abs() of a float
float_abs(x) ==
    IF x.class = "nan" THEN NaN
    ELSE IF x.class = "inf" THEN Infinity(1)
    ELSE Finite(Abs(x.val))

\* float.__eq__: NaN equals nothing, itself included
float_eq(x, y) == x.class # "nan" /\ y.class # "nan" /\ x = y

\* x >= 0 on a float: False for NaN
float_ge_zero(x) ==
    /\ x.class # "nan"
    /\ x.class = "inf" => x.val = 1
    /\ x.class = "finite" => x.val >= 0

\* AbsDiffOperation.execute on floats that need not be finite
AbsDiffOperation_on_floats(a, b) ==
    IF a.class = "finite" /\ b.class = "finite"
    THEN Finite(AbsDiffOperation(a.val, b.val).num)
    ELSE float_abs(float_sub(a, b))

\* Operation.execute, dispatched on the operation created by the factory
execute(operation, a, b) ==
    CASE operation = "add" -> AddOperation(a, b)
      [] operation = "subtract" -> SubtractOperation(a, b)
      [] operation = "multiply" -> MultiplyOperation(a, b)
      [] operation = "divide" -> DivideOperation(a, b)
      [] operation = "power" -> PowerOperation(a, b, 1)
      [] operation = "root" -> RootOperation(a, b)
      [] operation = "modulus" -> ModulusOperation(a, b)
      [] operation = "int_divide" -> IntDivideOperation(a, b)
      [] operation = "percent" -> PercentOperation(a, b)
      [] operation = "abs_diff" -> AbsDiffOperation(a, b)

\* round(result, precision): the rational num/den (den > 0) rounded
\* half-to-even to `precision` decimals, as a count of 10^-precision
RECURSIVE Pow10(_)
Pow10(p) == IF p = 0 THEN 1 ELSE 10 * Pow10(p - 1)

round(num, den, precision) ==
    LET n == num * Pow10(precision)
        q == n \div den
        r == n % den
    IN  IF 2 * r < den THEN q
        ELSE IF 2 * r > den THEN q + 1
        ELSE IF q % 2 = 0 THEN q ELSE q + 1

----------------------------------------------------------------------------
(* app/input_validators.py                                                 *)

\* validate_number: float(value), or ValidationError
validate_number(value) == value.numeric

\* validate_in_range raising at the maximum itself
validate_in_range_rejects_maximum(value, max_value) == ~(Abs(value) >= max_value)

\* validate_in_range: raises when abs(value) > max_value
validate_in_range(value, max_value) == ~(Abs(value) > max_value)

\* the four validation calls of perform_calculation, in order; "" when all pass
Validation(operand_a, operand_b, max_value) ==
    IF ~validate_number(operand_a) THEN "operand_a must be a number"
    ELSE IF ~validate_number(operand_b) THEN "operand_b must be a number"
    ELSE IF ~validate_in_range(operand_a.val, max_value)
         THEN "operand_a exceeds maximum allowed value"
    ELSE IF ~validate_in_range(operand_b.val, max_value)
         THEN "operand_b exceeds maximum allowed value"
    ELSE ""

----------------------------------------------------------------------------
(* app/calculation.py                                                      *)

\* a Calculation whose result has been set
Calculation(operation, operand_a, operand_b, result) ==
    [operation |-> operation, operand_a |-> operand_a,
     operand_b |-> operand_b, result |-> result]

\* Calculation(operation, a, b) followed by execute(), for operands on which
\* the operation yields a whole number
calculation_execute(operation, operand_a, operand_b) ==
    LET value == execute(operation, operand_a, operand_b)
    IN  Calculation(operation, operand_a, operand_b, value.num \div value.den)

\* Calculation.to_dict: the operation is written as the class name without
\* "Operation", lowercased
ClassName(operation) ==
    CASE operation = "add" -> "AddOperation"
      [] operation = "subtract" -> "SubtractOperation"
      [] operation = "multiply" -> "MultiplyOperation"
      [] operation = "divide" -> "DivideOperation"
      [] operation = "power" -> "PowerOperation"
      [] operation = "root" -> "RootOperation"
      [] operation = "modulus" -> "ModulusOperation"
      [] operation = "int_divide" -> "IntDivideOperation"
      [] operation = "percent" -> "PercentOperation"
      [] operation = "abs_diff" -> "AbsDiffOperation"

LoweredStem(className) ==
    CASE className = "AddOperation" -> "add"
      [] className = "SubtractOperation" -> "subtract"
      [] className = "MultiplyOperation" -> "multiply"
      [] className = "DivideOperation" -> "divide"
      [] className = "PowerOperation" -> "power"
      [] className = "RootOperation" -> "root"
      [] className = "ModulusOperation" -> "modulus"
      [] className = "IntDivideOperation" -> "intdivide"
      [] className = "PercentOperation" -> "percent"
      [] className = "AbsDiffOperation" -> "absdiff"

to_dict(calc) ==
    [operation |-> LoweredStem(ClassName(calc.operation)),
     operand_a |-> Num(calc.operand_a), operand_b |-> Num(calc.operand_b),
     result |-> Num(calc.result), timestamp |-> TRUE]

----------------------------------------------------------------------------
(* app/history.py                                                          *)

\* list.pop(0)
Tail0(s) == SubSeq(s, 2, Len(s))

\* list.pop(): the list without its last element, and that element
Front(s) == SubSeq(s, 1, Len(s) - 1)
Last(s) == s[Len(s)]

\* Python's s[-n:] : the last n elements for 0 < n <= len(s), and the whole
\* list for n = 0 (s[-0:] is s[0:])
LastSlice(s, n) ==
    IF n = 0 THEN s ELSE SubSeq(s, Len(s) - n + 1, Len(s))

\* CalculationHistory.add_calculation
add_calculation_never_evicts(h, calculation, max_size) ==
    Append(h, calculation)

add_calculation_evicts_newest(h, calculation, max_size) ==
    LET appended == Append(h, calculation)
    IN  IF Len(appended) > max_size THEN Front(appended) ELSE appended

add_calculation(h, calculation, max_size) ==
    LET appended == Append(h, calculation)
    IN  IF Len(appended) > max_size THEN Tail0(appended) ELSE appended

\* the per-row body of load_from_csv: the Calculation a row parses to, or
\* a skipped row
RowParses(row) ==
    /\ create_operation(row.operation).ok
    /\ row.operand_a.numeric
    /\ row.operand_b.numeric
    /\ row.result.numeric
    /\ row.timestamp

RowToCalculation(row) ==
    Calculation(row.operation, row.operand_a.val, row.operand_b.val, row.result.val)

RECURSIVE ParseRows_stops_at_bad_row(_)
ParseRows_stops_at_bad_row(rows) ==
    IF rows = <<>> THEN <<>>
    ELSE IF RowParses(Head(rows))
         THEN <<RowToCalculation(Head(rows))>> \o ParseRows_stops_at_bad_row(Tail(rows))
         ELSE <<>>

RECURSIVE ParseRows(_)
ParseRows(rows) ==
    IF rows = <<>> THEN <<>>
    ELSE IF RowParses(Head(rows))
         THEN <<RowToCalculation(Head(rows))>> \o ParseRows(Tail(rows))
         ELSE ParseRows(Tail(rows))

\* CalculationHistory.load_from_csv once read_csv has succeeded
load_from_csv(rows, max_size) ==
    LET loaded == ParseRows(rows)
    IN  IF Len(loaded) > max_size THEN LastSlice(loaded, max_size) ELSE loaded

\* CalculationHistory.save_to_csv: the rows written for a non-empty history
save_to_csv(h) == [i \in 1..Len(h) |-> to_dict(h[i])]

----------------------------------------------------------------------------
(* app/calculator_memento.py                                               *)

\* CalculatorMemento(history).get_snapshot(): a deep copy of a deep copy,
\* the same records in the same order
CalculatorMemento(history_snapshot) == history_snapshot

NewCaretaker == [undo_stack |-> <<>>, redo_stack |-> <<>>]

\* CalculatorCaretaker.save_state
save_state_keeps_redo(ct, h) ==
    [undo_stack |-> Append(ct.undo_stack, CalculatorMemento(h)),
     redo_stack |-> ct.redo_stack]

save_state(ct, h) ==
    [undo_stack |-> Append(ct.undo_stack, CalculatorMemento(h)),
     redo_stack |-> <<>>]

can_undo(ct) == Len(ct.undo_stack) > 0
can_redo(ct) == Len(ct.redo_stack) > 0

\* CalculatorCaretaker.undo: raises on an empty undo stack; otherwise the
\* caretaker after the call and the snapshot returned
undo_pushes_before_check(ct, current_history) ==
    IF ~can_undo(ct)
    THEN [ok |-> FALSE, msg |-> "Nothing to undo", restored |-> <<>>,
          caretaker |->
            [undo_stack |-> ct.undo_stack,
             redo_stack |-> Append(ct.redo_stack, current_history)]]
    ELSE [ok |-> TRUE, msg |-> "", restored |-> Last(ct.undo_stack),
          caretaker |->
            [undo_stack |-> Front(ct.undo_stack),
             redo_stack |-> Append(ct.redo_stack, current_history)]]

undo_keeps_top(ct, current_history) ==
    IF ~can_undo(ct)
    THEN [ok |-> FALSE, msg |-> "Nothing to undo", restored |-> <<>>,
          caretaker |-> ct]
    ELSE [ok |-> TRUE, msg |-> "", restored |-> Head(ct.undo_stack),
          caretaker |->
            [undo_stack |-> Front(ct.undo_stack),
             redo_stack |-> Append(ct.redo_stack, current_history)]]

undo(ct, current_history) ==
    IF ~can_undo(ct)
    THEN [ok |-> FALSE, msg |-> "Nothing to undo", restored |-> <<>>,
          caretaker |-> ct]
    ELSE [ok |-> TRUE, msg |-> "",
          restored |-> CalculatorMemento(Last(ct.undo_stack)),
          caretaker |->
            [undo_stack |-> Front(ct.undo_stack),
             redo_stack |->
                Append(ct.redo_stack, CalculatorMemento(current_history))]]

\* CalculatorCaretaker.redo: raises on an empty redo stack; otherwise the
\* popped memento goes back onto the undo stack and its snapshot is returned
redo_drops_memento(ct) ==
    IF ~can_redo(ct)
    THEN [ok |-> FALSE, msg |-> "Nothing to redo", restored |-> <<>>,
          caretaker |-> ct]
    ELSE [ok |-> TRUE, msg |-> "", restored |-> Last(ct.redo_stack),
          caretaker |->
            [undo_stack |-> ct.undo_stack,
             redo_stack |-> Front(ct.redo_stack)]]

redo_without_check(ct) ==
    IF ~can_redo(ct)
    THEN [ok |-> TRUE, msg |-> "", restored |-> <<>>,
          caretaker |-> [undo_stack |-> Append(ct.undo_stack, <<>>),
                         redo_stack |-> <<>>]]
    ELSE LET next_memento == Last(ct.redo_stack)
         IN  [ok |-> TRUE, msg |-> "",
              restored |-> CalculatorMemento(next_memento),
              caretaker |->
                [undo_stack |-> Append(ct.undo_stack, next_memento),
                 redo_stack |-> Front(ct.redo_stack)]]

redo_oldest_first(ct) ==
    IF ~can_redo(ct)
    THEN [ok |-> FALSE, msg |-> "Nothing to redo", restored |-> <<>>,
          caretaker |-> ct]
    ELSE LET next_memento == Head(ct.redo_stack)
         IN  [ok |-> TRUE, msg |-> "",
              restored |-> CalculatorMemento(next_memento),
              caretaker |->
                [undo_stack |-> Append(ct.undo_stack, next_memento),
                 redo_stack |-> Tail(ct.redo_stack)]]

redo(ct) ==
    IF ~can_redo(ct)
    THEN [ok |-> FALSE, msg |-> "Nothing to redo", restored |-> <<>>,
          caretaker |-> ct]
    ELSE LET next_memento == Last(ct.redo_stack)
         IN  [ok |-> TRUE, msg |-> "",
              restored |-> CalculatorMemento(next_memento),
              caretaker |->
                [undo_stack |-> Append(ct.undo_stack, next_memento),
                 redo_stack |-> Front(ct.redo_stack)]]

\* CalculatorCaretaker.clear
clear_keeps_redo(ct) == [undo_stack |-> <<>>, redo_stack |-> ct.redo_stack]

clear(ct) == [undo_stack |-> <<>>, redo_stack |-> <<>>]

----------------------------------------------------------------------------
(* The history file                                                        *)

Absent == [status |-> "absent", rows |-> <<>>]
\* a file read_csv cannot read as a whole (for instance an empty file)
Unreadable == [status |-> "unreadable", rows |-> <<>>]
CsvFile(rows) == [status |-> "ok", rows |-> rows]

Row(operation, a, b, result, timestamp) ==
    [operation |-> operation, operand_a |-> a, operand_b |-> b,
     result |-> result, timestamp |-> timestamp]

\* a file found on disk at start-up: two rows that parse around four rows
\* that do not (unknown operation, operand, result and timestamp that do not
\* parse)
FoundFile ==
    CsvFile(<<Row("divide", Num(2), Num(2), Num(1), TRUE),
              Row("sqrt", Num(1), Num(2), Num(1), TRUE),
              Row("divide", Num(1), NotANumber, Num(0), TRUE),
              Row("divide", Num(2), Num(2), NotANumber, TRUE),
              Row("divide", Num(2), Num(2), Num(1), FALSE),
              Row("divide", Num(1), Num(2), Num(0), TRUE)>>)

InitialFiles == {Absent, Unreadable, FoundFile}

\* CalculationHistory.save_to_csv as a call: an empty history raises before
\* anything is written; a write that fails raises and leaves the file as it
\* was; otherwise the file holds the rows of h
save_to_csv_call_opens_first(h, f, flt) ==
    IF Len(h) = 0
    THEN [ok |-> FALSE, msg |-> "No history to save", file |-> Unreadable]
    ELSE IF "disk" \in flt
         THEN [ok |-> FALSE, msg |-> "Failed to save history to CSV", file |-> f]
    ELSE [ok |-> TRUE, msg |-> "", file |-> CsvFile(save_to_csv(h))]

save_to_csv_call(h, f, flt) ==
    IF Len(h) = 0 THEN [ok |-> FALSE, msg |-> "No history to save", file |-> f]
    ELSE IF "disk" \in flt
         THEN [ok |-> FALSE, msg |-> "Failed to save history to CSV", file |-> f]
    ELSE [ok |-> TRUE, msg |-> "", file |-> CsvFile(save_to_csv(h))]

----------------------------------------------------------------------------
(* Objects and references: the lists and the Calculation objects that the   *)
(* live history and the mementos hold, by identity. heap.lists maps a list   *)
(* to the identities of its elements, heap.recs maps a Calculation object to *)
(* its fields; heap.live is CalculationHistory._history, heap.undo and       *)
(* heap.redo hold the _history_snapshot list of each memento on the stacks.  *)

\* Calculator.__init__: the observers registered, in registration order
observers(cfg) ==
    IF cfg.auto_save THEN <<"LoggingObserver", "AutoSaveObserver">>
    ELSE <<"LoggingObserver">>

\* the objects of a Calculator just constructed: an empty history list, two
\* empty stacks, the observers __init__ registered
NewHeap(cfg) ==
    [live |-> 1, undo |-> <<>>, redo |-> <<>>,
     lists |-> <<<<>>>>, recs |-> <<>>, observers |-> observers(cfg)]

Range(s) == {s[i] : i \in 1..Len(s)}

\* n identities that are not in use, smallest first
RECURSIVE FreshIds(_, _)
FreshIds(used, n) ==
    IF n = 0 THEN <<>>
    ELSE LET id == CHOOSE i \in 1..(Cardinality(used) + 1) :
                      /\ i \notin used
                      /\ \A j \in 1..(Cardinality(used) + 1) : j \notin used => i <= j
         IN  <<id>> \o FreshIds(used \cup {id}, n - 1)

\* the records of list l, by value
Deref(h, l) == [i \in 1..Len(h.lists[l]) |-> h.recs[h.lists[l][i]]]

\* a new list object with the given elements
NewList(h, elements) ==
    LET id == FreshIds(DOMAIN h.lists, 1)[1]
    IN  [heap |-> [h EXCEPT !.lists = @ @@ (id :> elements)], id |-> id]

\* copy.deepcopy of a list of distinct Calculation objects: a new list of
\* new objects with the same fields
deepcopy(h, l) ==
    LET src == h.lists[l]
        ids == FreshIds(DOMAIN h.recs, Len(src))
        copies == [r \in Range(ids) |->
                      h.recs[src[CHOOSE i \in 1..Len(src) : ids[i] = r]]]
    IN  NewList([h EXCEPT !.recs = @ @@ copies], ids)

\* CalculationHistory.get_history: list.copy(), a new list of the same objects
get_history(h) == NewList(h, h.lists[h.live])

\* CalculatorMemento.__init__ and get_snapshot
memento_keeps_reference(h, l) == [heap |-> h, id |-> l]

memento(h, l) == deepcopy(h, l)

get_snapshot(h, l) == deepcopy(h, l)

\* the elements of s in order of first occurrence
RECURSIVE Dedup(_)
Dedup(s) ==
    IF s = <<>> THEN <<>>
    ELSE LET front == Dedup(Front(s))
         IN  IF Last(s) \in Range(front) THEN front ELSE Append(front, Last(s))

RECURSIVE Flatten(_)
Flatten(ss) == IF ss = <<>> THEN <<>> ELSE Head(ss) \o Flatten(Tail(ss))

IndexOf(s, e) == CHOOSE i \in 1..Len(s) : s[i] = e

\* objects no reference leads to any more are gone; the identities of the
\* others are numbered in the order the references reach them (an identity
\* is only ever compared for equality)
Collect(h) ==
    LET lists == Dedup(<<h.live>> \o h.undo \o h.redo)
        recs == Dedup(Flatten([i \in 1..Len(lists) |-> h.lists[lists[i]]]))
        list(l) == IndexOf(lists, l)
        rec(r) == IndexOf(recs, r)
    IN  [live |-> list(h.live),
         undo |-> [i \in 1..Len(h.undo) |-> list(h.undo[i])],
         redo |-> [i \in 1..Len(h.redo) |-> list(h.redo[i])],
         lists |-> [i \in 1..Len(lists) |->
                      [j \in 1..Len(h.lists[lists[i]]) |-> rec(h.lists[lists[i]][j])]],
         recs |-> [i \in 1..Len(recs) |-> h.recs[recs[i]]],
         observers |-> h.observers]

\* the history and the caretaker by value
LiveHistory(h) == Deref(h, h.live)
Snapshots(h) ==
    [undo_stack |-> [i \in 1..Len(h.undo) |-> Deref(h, h.undo[i])],
     redo_stack |-> [i \in 1..Len(h.redo) |-> Deref(h, h.redo[i])]]

----------------------------------------------------------------------------
(* app/calculator.py                                                       *)

Outcome(status, msg, value) == [status |-> status, msg |-> msg, value |-> value]

\* what the session looked like when the operation that just ran started:
\* the history, the depth of both stacks, and the operation that ran before
\* it (or the error that operation ended with)
Before ==
    [history |-> history,
     undo_depth |-> Len(caretaker.undo_stack),
     redo_depth |-> Len(caretaker.redo_stack),
     op |-> IF outcome.status = "ok" THEN lastOp ELSE outcome.status]

\* Observer.update for each observer class: LoggingObserver hands the
\* calculation to the logger and lets whatever the logger raises through;
\* AutoSaveObserver saves a non-empty history and swallows HistoryError; the
\* DummyObserver a caller registers does nothing
LoggingObserver(flt) == [raised |-> "logger" \in flt]

\* AutoSaveObserver.update calling save_to_csv whatever the count is
AutoSaveObserver_always_saves(h, f, flt) ==
    [saved |-> TRUE, file |-> save_to_csv_call(h, f, flt).file]

\* saved: whether save_to_csv was called; file: the file afterwards
AutoSaveObserver(h, f, flt) ==
    IF Len(h) > 0
    THEN [saved |-> TRUE, file |-> save_to_csv_call(h, f, flt).file]
    ELSE [saved |-> FALSE, file |-> f]

update(observer, h, f, flt) ==
    CASE observer = "LoggingObserver" ->
            [raised |-> LoggingObserver(flt).raised, file |-> f, saved |-> FALSE]
      [] observer = "AutoSaveObserver" ->
            [raised |-> FALSE, file |-> AutoSaveObserver(h, f, flt).file,
             saved |-> AutoSaveObserver(h, f, flt).saved]
      [] observer = "DummyObserver" ->
            [raised |-> FALSE, file |-> f, saved |-> FALSE]

\* one invocation of an observer: which observer, the calculation handed to
\* it, the history as it was at that moment, and whether the observer
\* called save_to_csv
Invocation(observer, calculation, h, saved) ==
    [observer |-> observer, calculation |-> calculation, history |-> h,
     saved |-> saved]

\* Calculator.notify_observers: update() on each observer in turn; an
\* exception leaving update() ends the loop. Yields the invocations made, the
\* file afterwards and whether an exception came out
RECURSIVE notify_observers(_, _, _, _, _)
notify_observers(obs, calculation, h, f, flt) ==
    IF obs = <<>> THEN [raised |-> FALSE, file |-> f, notified |-> <<>>]
    ELSE LET u == update(Head(obs), h, f, flt)
             this == Invocation(Head(obs), calculation, h, u.saved)
         IN  IF u.raised
             THEN [raised |-> TRUE, file |-> u.file, notified |-> <<this>>]
             ELSE LET rest == notify_observers(Tail(obs), calculation, h, u.file, flt)
                  IN  [raised |-> rest.raised, file |-> rest.file,
                       notified |-> <<this>> \o rest.notified]

Init ==
    /\ config \in [max_history_size : 0..MaxHistoryBound,
                   auto_save : BOOLEAN,
                   precision : {Precision},
                   max_input_value : {MaxInputValue}]
    /\ history = <<>>
    /\ caretaker = NewCaretaker
    /\ file \in InitialFiles
    /\ faults = {}
    /\ lastOp = "init"
    /\ outcome = Outcome("ok", "", 0)
    /\ notified = <<>>
    /\ pre = [history |-> <<>>, undo_depth |-> 0, redo_depth |-> 0,
              op |-> "init"]
    /\ heap = NewHeap(config)
    /\ call = NoCall

\* Calculator.perform_calculation when a validator raises: nothing after
\* the validation calls runs
PerformInvalid_saves_first(v) ==
    /\ outcome' = Outcome("ValidationError", v, 0)
    /\ notified' = <<>>
    /\ caretaker' = save_state(caretaker, history)
    /\ UNCHANGED <<history, file>>

PerformInvalid(v) ==
    /\ outcome' = Outcome("ValidationError", v, 0)
    /\ notified' = <<>>
    /\ UNCHANGED <<history, caretaker, file>>

\* Calculator.perform_calculation when create_operation or execute raises:
\* the state was saved, nothing after the raising call runs
PerformFailed_notifies(raised) ==
    /\ caretaker' = save_state(caretaker, history)
    /\ outcome' = Outcome(raised.error, raised.msg, 0)
    /\ notified' = heap.observers
    /\ UNCHANGED <<history, file>>

PerformFailed_saves_after(raised) ==
    /\ outcome' = Outcome(raised.error, raised.msg, 0)
    /\ notified' = <<>>
    /\ UNCHANGED <<history, caretaker, file>>

PerformFailed_keeps_redo(raised) ==
    /\ caretaker' = save_state_keeps_redo(caretaker, history)
    /\ outcome' = Outcome(raised.error, raised.msg, 0)
    /\ notified' = <<>>
    /\ UNCHANGED <<history, file>>

PerformFailed(raised) ==
    /\ caretaker' = save_state(caretaker, history)
    /\ outcome' = Outcome(raised.error, raised.msg, 0)
    /\ notified' = <<>>
    /\ UNCHANGED <<history, file>>

\* Calculator.perform_calculation when nothing raises: save the state, round
\* the result, add the calculation, notify the observers, return the result
PerformSucceeded_notifies_first(calculation) ==
    LET added == add_calculation(history, calculation, config.max_history_size)
        n == notify_observers(heap.observers, calculation, history, file, faults)
    IN  /\ caretaker' = save_state(caretaker, history)
        /\ history' = added
        /\ notified' = n.notified
        /\ file' = n.file
        /\ outcome' = IF n.raised THEN Outcome("Exception", "logger failed", 0)
                       ELSE Outcome("ok", "", calculation.result)

\* perform_calculation adding the calculation as execute() left it, its
\* result not rounded (here: cut to a whole count), and returning the
\* rounded value
PerformSucceeded_stores_unrounded(calculation) ==
    LET raw == execute(calculation.operation, calculation.operand_a,
                       calculation.operand_b)
        executed == [calculation EXCEPT
                        !.result = (raw.num * Pow10(config.precision)) \div raw.den]
        added == add_calculation(history, executed, config.max_history_size)
        n == notify_observers(heap.observers, calculation, added, file, faults)
    IN  /\ caretaker' = save_state(caretaker, history)
        /\ history' = added
        /\ notified' = n.notified
        /\ file' = n.file
        /\ outcome' = IF n.raised THEN Outcome("Exception", "logger failed", 0)
                       ELSE Outcome("ok", "", calculation.result)

PerformSucceeded(calculation) ==
    LET added == add_calculation(history, calculation, config.max_history_size)
        n == notify_observers(heap.observers, calculation, added, file, faults)
    IN  /\ caretaker' = save_state(caretaker, history)
        /\ history' = added
        /\ notified' = n.notified
        /\ file' = n.file
        /\ outcome' = IF n.raised THEN Outcome("Exception", "logger failed", 0)
                       ELSE Outcome("ok", "", calculation.result)

\* Calculator.perform_calculation
perform_calculation(operation_name, operand_a, operand_b) ==
    LET v == Validation(operand_a, operand_b, config.max_input_value)
        a == operand_a.val
        b == operand_b.val
        operation == create_operation(operation_name)
        raw == IF operation.ok THEN execute(operation.operation, a, b)
               ELSE Raise(operation.error, operation.msg)
        result == round(raw.num, raw.den, config.precision)
        calculation == Calculation(operation.operation, a, b, result)
    IN  /\ IF v # "" THEN PerformInvalid(v)
           ELSE IF ~raw.ok THEN PerformFailed(raw)
           ELSE PerformSucceeded(calculation)
        /\ lastOp' = "perform"
        /\ pre' = Before
        /\ UNCHANGED <<config, faults, heap>>

\* Calculator.repl, a line of three words whose first is a registered
\* operation: perform_calculation on that name and the two other words
Perform ==
    /\ Len(caretaker.undo_stack) + Len(caretaker.redo_stack) < MaxSnapshots
    /\ \E command \in OperationNames, operand_a \in OperandsA,
          operand_b \in OperandsB :
            /\ command \in get_available_operations
            /\ perform_calculation(command, operand_a, operand_b)
    /\ UNCHANGED call

\* Calculator.repl, a line whose first word is neither a fixed command nor a
\* registered operation: "Unknown command" is printed and nothing is called
UnknownCommand ==
    /\ \E command \in OperationNames : command \notin get_available_operations
    /\ lastOp' = "unknown"
    /\ outcome' = Outcome("ok", "", 0)
    /\ notified' = <<>>
    /\ pre' = Before
    /\ UNCHANGED <<config, history, caretaker, file, faults, heap, call>>

\* Calculator.undo
CalculatorUndo ==
    LET u == undo(caretaker, history)
    IN  /\ caretaker' = u.caretaker
        /\ IF u.ok
           THEN /\ history' = u.restored
                /\ outcome' = Outcome("ok", "", 0)
           ELSE /\ outcome' = Outcome("HistoryError", u.msg, 0)
                /\ UNCHANGED history
        /\ lastOp' = "undo"
        /\ notified' = <<>>
        /\ pre' = Before
        /\ UNCHANGED <<config, file, faults, heap>>

Undo == CalculatorUndo /\ UNCHANGED call

\* Calculator.redo
CalculatorRedo ==
    LET r == redo(caretaker)
    IN  /\ caretaker' = r.caretaker
        /\ IF r.ok
           THEN /\ history' = r.restored
                /\ outcome' = Outcome("ok", "", 0)
           ELSE /\ outcome' = Outcome("HistoryError", r.msg, 0)
                /\ UNCHANGED history
        /\ lastOp' = "redo"
        /\ notified' = <<>>
        /\ pre' = Before
        /\ UNCHANGED <<config, file, faults, heap>>

Redo == CalculatorRedo /\ UNCHANGED call

\* Calculator.clear_history
ClearHistory ==
    /\ history' = <<>>
    /\ caretaker' = clear(caretaker)
    /\ outcome' = Outcome("ok", "", 0)
    /\ lastOp' = "clear"
    /\ notified' = <<>>
    /\ pre' = Before
    /\ UNCHANGED <<config, file, faults, heap, call>>

\* Calculator.save_history
SaveHistory ==
    /\ LET s == save_to_csv_call(history, file, faults)
       IN  /\ file' = s.file
           /\ outcome' = IF s.ok THEN Outcome("ok", "", 0)
                          ELSE Outcome("HistoryError", s.msg, 0)
    /\ lastOp' = "save"
    /\ notified' = <<>>
    /\ pre' = Before
    /\ UNCHANGED <<config, history, caretaker, faults, heap, call>>

\* load_history pushing a checkpoint before it loads
LoadHistory_saves_state ==
    /\ CASE file.status = "absent" ->
              /\ outcome' = Outcome("HistoryError", "History file not found", 0)
              /\ UNCHANGED history
         [] file.status = "unreadable" ->
              /\ outcome' = Outcome("HistoryError", "Failed to load history from CSV", 0)
              /\ UNCHANGED history
         [] file.status = "ok" ->
              /\ history' = load_from_csv(file.rows, config.max_history_size)
              /\ outcome' = Outcome("ok", "", 0)
    /\ caretaker' = save_state(caretaker, history)
    /\ lastOp' = "load"
    /\ notified' = <<>>
    /\ pre' = Before
    /\ UNCHANGED <<config, file, faults, heap, call>>

\* load_from_csv clearing the history before it reads the file
LoadHistory_clears_first ==
    /\ CASE file.status = "absent" ->
              /\ outcome' = Outcome("HistoryError", "History file not found", 0)
              /\ history' = <<>>
         [] file.status = "unreadable" ->
              /\ outcome' = Outcome("HistoryError", "Failed to load history from CSV", 0)
              /\ history' = <<>>
         [] file.status = "ok" ->
              /\ history' = load_from_csv(file.rows, config.max_history_size)
              /\ outcome' = Outcome("ok", "", 0)
    /\ lastOp' = "load"
    /\ notified' = <<>>
    /\ pre' = Before
    /\ UNCHANGED <<config, caretaker, file, faults, heap, call>>

\* Calculator.load_history
LoadHistory ==
    /\ CASE file.status = "absent" ->
              /\ outcome' = Outcome("HistoryError", "History file not found", 0)
              /\ UNCHANGED history
         [] file.status = "unreadable" ->
              /\ outcome' = Outcome("HistoryError", "Failed to load history from CSV", 0)
              /\ UNCHANGED history
         [] file.status = "ok" ->
              /\ history' = load_from_csv(file.rows, config.max_history_size)
              /\ outcome' = Outcome("ok", "", 0)
    /\ lastOp' = "load"
    /\ notified' = <<>>
    /\ pre' = Before
    /\ UNCHANGED <<config, caretaker, file, faults, heap, call>>

Next ==
    \/ Perform
    \/ UnknownCommand
    \/ Undo
    \/ Redo
    \/ ClearHistory
    \/ SaveHistory
    \/ LoadHistory

Spec == Init /\ [][Next]_vars

----------------------------------------------------------------------------
(* The session with collaborators that may fail: a logger whose             *)
(* log_calculation raises, a file system on which to_csv raises             *)

Collaborators == {"logger", "disk"}

FaultyInit ==
    /\ config \in [max_history_size : 0..MaxHistoryBound,
                   auto_save : BOOLEAN,
                   precision : {Precision},
                   max_input_value : {MaxInputValue}]
    /\ history = <<>>
    /\ caretaker = NewCaretaker
    /\ file \in InitialFiles
    /\ faults \in SUBSET Collaborators
    /\ lastOp = "init"
    /\ outcome = Outcome("ok", "", 0)
    /\ notified = <<>>
    /\ pre = [history |-> <<>>, undo_depth |-> 0, redo_depth |-> 0,
              op |-> "init"]
    /\ heap = NewHeap(config)
    /\ call = NoCall

FaultySpec == FaultyInit /\ [][Next]_vars

----------------------------------------------------------------------------
(* The session by object identity: the same calls, on lists and Calculation *)
(* objects that can be shared; history and caretaker are what the live list  *)
(* and the mementos hold, by value                                           *)

\* the record perform_calculation creates: divide on operands that pass
\* validation
PerformedRecords ==
    {Calculation("divide", a, 2, round(DivideOperation(a, 2).num,
                                       DivideOperation(a, 2).den, Precision)) :
        a \in {2}}

\* values a caller assigns to calculation.result
ResultValues == {0, 1}

\* caretaker.save_state(history.get_history())
ObjSaveState(h) ==
    LET current == get_history(h)
        m == memento(current.heap, current.id)
    IN  [m.heap EXCEPT !.undo = Append(@, m.id), !.redo = <<>>]

\* Calculation(...) then history.add_calculation: append to the live list in
\* place, pop(0) in place when it is too long
ObjAddCalculation(h, calculation, max_size) ==
    LET r == FreshIds(DOMAIN h.recs, 1)[1]
        appended == [h EXCEPT !.recs = @ @@ (r :> calculation),
                              !.lists[h.live] = Append(@, r)]
    IN  IF Len(appended.lists[h.live]) > max_size
        THEN [appended EXCEPT !.lists[h.live] = Tail0(@)]
        ELSE appended

\* history._history = caretaker.undo(history.get_history())
ObjUndoState(h) ==
    LET current == get_history(h)
        current_memento == memento(current.heap, current.id)
        pushed == [current_memento.heap EXCEPT !.redo = Append(@, current_memento.id)]
        previous_memento == Last(pushed.undo)
        popped == [pushed EXCEPT !.undo = Front(@)]
        snapshot == get_snapshot(popped, previous_memento)
    IN  [snapshot.heap EXCEPT !.live = snapshot.id]

\* history._history = caretaker.redo()
ObjRedoState(h) ==
    LET next_memento == Last(h.redo)
        moved == [h EXCEPT !.redo = Front(@), !.undo = Append(@, next_memento)]
        snapshot == get_snapshot(moved, next_memento)
    IN  [snapshot.heap EXCEPT !.live = snapshot.id]

\* the step leaves the objects as in h, less the unreachable ones; it
\* returned or raised `out` and invoked the observers of `invoked`
Becomes(h, op, out, invoked) ==
    /\ heap' = Collect(h)
    /\ history' = LiveHistory(heap')
    /\ caretaker' = Snapshots(heap')
    /\ lastOp' = op
    /\ outcome' = out
    /\ notified' = invoked
    /\ UNCHANGED <<config, file, faults, pre, call>>

ObjInit ==
    /\ config \in [max_history_size : 0..MaxStoreSize,
                   auto_save : {FALSE},
                   precision : {Precision},
                   max_input_value : {MaxInputValue}]
    /\ history = <<>>
    /\ caretaker = NewCaretaker
    /\ file = Absent
    /\ faults = {}
    /\ lastOp = "init"
    /\ outcome = Outcome("ok", "", 0)
    /\ notified = <<>>
    /\ pre = [history |-> <<>>, undo_depth |-> 0, redo_depth |-> 0,
              op |-> "init"]
    /\ heap = NewHeap(config)
    /\ call = NoCall

\* Calculator.perform_calculation that succeeds: save the state, add the
\* calculation, notify the observers, return the result
ObjPerform ==
    /\ Len(heap.undo) + Len(heap.redo) < MaxSnapshots
    /\ \E calculation \in PerformedRecords :
          LET h == ObjAddCalculation(ObjSaveState(heap), calculation,
                                     config.max_history_size)
              n == notify_observers(heap.observers, calculation,
                                    LiveHistory(Collect(h)), file, faults)
          IN  Becomes(h, "perform",
                      IF n.raised THEN Outcome("Exception", "logger failed", 0)
                      ELSE Outcome("ok", "", calculation.result),
                      n.notified)

\* Calculator.undo
ObjUndo ==
    IF Len(heap.undo) = 0
    THEN Becomes(heap, "undo", Outcome("HistoryError", "Nothing to undo", 0), <<>>)
    ELSE Becomes(ObjUndoState(heap), "undo", Outcome("ok", "", 0), <<>>)

\* Calculator.redo
ObjRedo ==
    IF Len(heap.redo) = 0
    THEN Becomes(heap, "redo", Outcome("HistoryError", "Nothing to redo", 0), <<>>)
    ELSE Becomes(ObjRedoState(heap), "redo", Outcome("ok", "", 0), <<>>)

\* Calculator.clear_history: list.clear() on the live list and on both stacks
ObjClearHistory ==
    Becomes([heap EXCEPT !.lists[heap.live] = <<>>, !.undo = <<>>, !.redo = <<>>],
            "clear", Outcome("ok", "", 0), <<>>)

\* calculator.history.clear_history(): list.clear() on the live list alone
ObjClearStore ==
    Becomes([heap EXCEPT !.lists[heap.live] = <<>>], "clear_store",
            Outcome("ok", "", 0), <<>>)

\* a caller assigns the result field of a Calculation object of the live list
\* (the list restored by the last undo or redo, if there was one)
ObjSetResult ==
    \E i \in 1..Len(heap.lists[heap.live]), v \in ResultValues :
        /\ heap.recs[heap.lists[heap.live][i]].result # v
        /\ Becomes([heap EXCEPT !.recs[heap.lists[heap.live][i]].result = v],
                   "set_result", Outcome("ok", "", 0), <<>>)

ObjNext ==
    \/ ObjPerform
    \/ ObjUndo
    \/ ObjRedo
    \/ ObjClearHistory
    \/ ObjClearStore
    \/ ObjSetResult

ObjSpec == ObjInit /\ [][ObjNext]_vars

----------------------------------------------------------------------------
(* The history store on its own: a CalculationHistory that is handed        *)
(* executed calculations, cleared, saved and loaded                         *)

\* the operations of the calculations handed to add_calculation
StoreOperations == {"divide", "int_divide", "abs_diff"}

\* the calculations handed to add_calculation: each operation executed on
\* the operands 2 and 2
StoreRecords ==
    {calculation_execute(create_operation(n).operation, 2, 2) : n \in StoreOperations}

StoreInit ==
    /\ config \in [max_history_size : 0..MaxStoreSize,
                   auto_save : {FALSE},
                   precision : {Precision},
                   max_input_value : {MaxInputValue}]
    /\ history = <<>>
    /\ caretaker = NewCaretaker
    /\ file \in InitialFiles
    /\ faults = {}
    /\ lastOp = "init"
    /\ outcome = Outcome("ok", "", 0)
    /\ notified = <<>>
    /\ pre = [history |-> <<>>, undo_depth |-> 0, redo_depth |-> 0,
              op |-> "init"]
    /\ heap = NewHeap(config)
    /\ call = NoCall

\* CalculationHistory.add_calculation on the store
AddCalculation ==
    \E calculation \in StoreRecords :
        /\ history' = add_calculation(history, calculation, config.max_history_size)
        /\ outcome' = Outcome("ok", "", calculation.result)
        /\ lastOp' = "add"
        /\ notified' = <<>>
        /\ pre' = Before
        /\ UNCHANGED <<config, caretaker, file, faults, heap, call>>

StoreNext ==
    \/ AddCalculation
    \/ ClearHistory
    \/ SaveHistory
    \/ LoadHistory

StoreSpec == StoreInit /\ [][StoreNext]_vars

----------------------------------------------------------------------------
(* The operations, the factory and the validators on their own: an          *)
(* operation is executed on two operands, the factory is asked for a name,  *)
(* and a new Calculator performs one calculation                            *)

\* the whole operands handed to execute
OpOperands == (-MaxOperand)..MaxOperand

\* the floats handed to the absolute difference: the whole operands, NaN and
\* both infinities
Floats == {Finite(v) : v \in OpOperands} \cup {NaN, Infinity(1), Infinity(-1)}

\* the numerators n of the exponents n/2 handed to the power operation
Halves == {n \in (-MaxHalves)..MaxHalves : n % 2 = 1}

\* every spelling of a registry name in lower and upper case letters
Casings(spelling) ==
    {[i \in 1..Len(spelling) |->
        IF i \in capitals THEN Upper(spelling[i]) ELSE spelling[i]] :
     capitals \in SUBSET (1..Len(spelling))}

\* names handed to the factory that are no casing of a registry name
OtherTexts ==
    {<<>>, <<"s", "q", "r", "t">>, <<"a", "d">>, <<"A", "D", "D", "D">>,
     <<"a", "d", "d", " ">>, <<" ", "a", "d", "d">>,
     <<"i", "n", "t", "d", "i", "v", "i", "d", "e">>,
     <<"a", "b", "s", "-", "d", "i", "f", "f">>,
     <<"I", "N", "T", " ", "D", "I", "V", "I", "D", "E">>,
     <<"p", "l", "u", "s">>}

OperationTexts ==
    UNION {Casings(Spelling(name)) : name \in _operations} \cup OtherTexts

\* the operands handed to the one perform: whole numbers up to one beyond
\* max_input_value on both sides, and text that is no number
OpPerformOperands ==
    {Num(v) : v \in (-(MaxInputValue + 1))..(MaxInputValue + 1)} \cup {NotANumber}

\* the names handed to perform_calculation: the operations whose value on
\* whole operands is a ratio, and a name that is not registered
OpPerformNames == (_operations \ {"power", "root"}) \cup {"sqrt"}

\* observers a caller registers after construction
RegisteredLater == {"DummyObserver"}

\* a call about to be made
Pending(fn, name, a, b, b_den) ==
    [fn |-> fn, name |-> name, a |-> a, b |-> b, b_den |-> b_den,
     done |-> FALSE, value |-> "pending"]

\* the calls made: execute on whole operands; the power operation on a
\* whole base and an exponent n/2; create_operation on a spelled name;
\* perform_calculation on a new Calculator
OpCalls ==
    {Pending("execute", operation, a, b, 1) :
        operation \in _operations, a \in OpOperands, b \in OpOperands}
    \cup {Pending("execute", "power", a, n, 2) : a \in OpOperands, n \in Halves}
    \cup {Pending("execute_on_floats", "abs_diff", a, b, 1) :
            a \in Floats, b \in Floats}
    \cup {Pending("create_operation", operation_name, 0, 0, 1) :
            operation_name \in OperationTexts}
    \cup {Pending("perform", operation_name, operand_a, operand_b, 1) :
            operation_name \in OpPerformNames, operand_a \in OpPerformOperands,
            operand_b \in OpPerformOperands}

\* the call with what it yielded
Done(value) == [call EXCEPT !.done = TRUE, !.value = value]

OpInit ==
    /\ config \in [max_history_size : 0..MaxHistoryBound,
                   auto_save : BOOLEAN,
                   precision : {Precision},
                   max_input_value : {MaxInputValue}]
    /\ history = <<>>
    /\ caretaker = NewCaretaker
    /\ file = Absent
    /\ faults = {}
    /\ lastOp = "init"
    /\ outcome = Outcome("ok", "", 0)
    /\ notified = <<>>
    /\ pre = [history |-> <<>>, undo_depth |-> 0, redo_depth |-> 0,
              op |-> "init"]
    /\ heap = NewHeap(config)
    /\ call \in OpCalls

\* operation.execute(a, b) on whole operands
Execute ==
    /\ call.fn = "execute" /\ call.b_den = 1 /\ ~call.done
    /\ call' = Done(execute(call.name, call.a, call.b))
    /\ UNCHANGED <<config, history, caretaker, file, faults, lastOp, outcome,
                   notified, pre, heap>>

\* AbsDiffOperation().execute(a, b) on floats that need not be finite
ExecuteOnFloats ==
    /\ call.fn = "execute_on_floats" /\ ~call.done
    /\ call' = Done(AbsDiffOperation_on_floats(call.a, call.b))
    /\ UNCHANGED <<config, history, caretaker, file, faults, lastOp, outcome,
                   notified, pre, heap>>

\* PowerOperation().execute(a, b) on an exponent that is no whole number
ExecutePower ==
    /\ call.fn = "execute" /\ call.b_den # 1 /\ ~call.done
    /\ call' = Done(PowerOperation(call.a, call.b, call.b_den))
    /\ UNCHANGED <<config, history, caretaker, file, faults, lastOp, outcome,
                   notified, pre, heap>>

\* OperationFactory.create_operation(operation_name)
Create ==
    /\ call.fn = "create_operation" /\ ~call.done
    /\ call' = Done(create_operation_spelled(call.name))
    /\ UNCHANGED <<config, history, caretaker, file, faults, lastOp, outcome,
                   notified, pre, heap>>

\* Calculator.register_observer: append, whether or not the observer is
\* registered already
register_observer(h, observer) == [h EXCEPT !.observers = Append(@, observer)]

\* calc.register_observer(observer), called before perform_calculation with
\* an observer whose update() does nothing, any number of times up to the
\* bound
OpRegisterObserver ==
    /\ call.fn = "perform" /\ ~call.done
    /\ Len(heap.observers) < MaxObservers
    /\ \E observer \in RegisteredLater :
          heap' = register_observer(heap, observer)
    /\ UNCHANGED <<config, history, caretaker, file, faults, lastOp, outcome,
                   notified, pre, call>>

\* perform_calculation(operation_name, operand_a, operand_b) called on the
\* Calculator
OpPerform ==
    /\ call.fn = "perform" /\ ~call.done
    /\ perform_calculation(call.name, call.a, call.b)
    /\ call' = Done(outcome')

OpNext ==
    \/ Execute
    \/ ExecuteOnFloats
    \/ ExecutePower
    \/ Create
    \/ OpRegisterObserver
    \/ OpPerform

OpSpec == OpInit /\ [][OpNext]_vars

----------------------------------------------------------------------------
(* Undo and redo in a row: a session of performs, undos and redos in which  *)
(* the caller then issues k undos followed by k redos                       *)

\* the run of k undos and k redos under way: how many of each were issued,
\* and the history and the redo stack as they were before the first undo
Trip(k, undos, redos, h, redo_stack) ==
    [fn |-> "undo_redo", done |-> redos = k, k |-> k, undos |-> undos,
     redos |-> redos, history |-> h, redo_stack |-> redo_stack]

TripInit ==
    /\ config \in [max_history_size : 0..MaxHistoryBound,
                   auto_save : {FALSE},
                   precision : {Precision},
                   max_input_value : {MaxInputValue}]
    /\ history = <<>>
    /\ caretaker = NewCaretaker
    /\ file = Absent
    /\ faults = {}
    /\ lastOp = "init"
    /\ outcome = Outcome("ok", "", 0)
    /\ notified = <<>>
    /\ pre = [history |-> <<>>, undo_depth |-> 0, redo_depth |-> 0,
              op |-> "init"]
    /\ heap = NewHeap(config)
    /\ call = NoCall

\* the session before the run
TripPerform == call = NoCall /\ Perform
TripUndo == call = NoCall /\ Undo
TripRedo == call = NoCall /\ Redo

\* the first of k undos, on an undo stack that holds at least k snapshots
FirstUndo ==
    /\ call = NoCall
    /\ \E k \in 1..Len(caretaker.undo_stack) :
            call' = Trip(k, 1, 0, history, caretaker.redo_stack)
    /\ CalculatorUndo

\* the undos after the first
NextUndo ==
    /\ call.fn = "undo_redo" /\ call.undos < call.k
    /\ call' = Trip(call.k, call.undos + 1, 0, call.history, call.redo_stack)
    /\ CalculatorUndo

\* the k redos that follow the k undos
NextRedo ==
    /\ call.fn = "undo_redo" /\ call.undos = call.k /\ call.redos < call.k
    /\ call' = Trip(call.k, call.undos, call.redos + 1, call.history,
                    call.redo_stack)
    /\ CalculatorRedo

TripNext ==
    \/ TripPerform
    \/ TripUndo
    \/ TripRedo
    \/ FirstUndo
    \/ NextUndo
    \/ NextRedo

TripSpec == TripInit /\ [][TripNext]_vars

----------------------------------------------------------------------------
(* The session with a history that may hold several records: the bound is  *)
(* any of 0..MaxStoreSize and a history file is on disk                     *)

WideInit ==
    /\ config \in [max_history_size : 0..MaxStoreSize,
                   auto_save : {FALSE},
                   precision : {Precision},
                   max_input_value : {MaxInputValue}]
    /\ history = <<>>
    /\ caretaker = NewCaretaker
    /\ file = FoundFile
    /\ faults = {}
    /\ lastOp = "init"
    /\ outcome = Outcome("ok", "", 0)
    /\ notified = <<>>
    /\ pre = [history |-> <<>>, undo_depth |-> 0, redo_depth |-> 0,
              op |-> "init"]
    /\ heap = NewHeap(config)
    /\ call = NoCall

WideNext ==
    \/ Perform
    \/ ClearHistory
    \/ LoadHistory

WideSpec == WideInit /\ [][WideNext]_vars

----------------------------------------------------------------------------
(* Properties of the session                                               *)

Succeeded(op) == lastOp = op /\ outcome.status = "ok"

\* C1: in every reachable state the history holds at most max_size records,
\* for every max_size >= 0.
HistoryWithinMaxSize == Len(history) <= config.max_history_size

\* C2: undo and redo toggle between adjacent saved states. With two states
\* saved, a redo right after an undo brings back the history the undo
\* replaced (H2), and an undo right after that redo brings back the history
\* the first undo had restored (H1), and so on under repetition.
UndoRedoToggles ==
    [][/\ (Succeeded("undo") /\ lastOp' = "redo")
            => (outcome'.status = "ok" /\ history' = pre.history)
       /\ (Succeeded("redo") /\ pre.op = "undo" /\ pre.undo_depth >= 1
             /\ lastOp' = "undo")
            => (outcome'.status = "ok" /\ history' = pre.history)
       /\ (Succeeded("undo") /\ pre.op = "redo" /\ lastOp' = "redo")
            => (outcome'.status = "ok" /\ history' = pre.history)]_vars

\* C3: an undo issued right after a successful perform restores the record
\* sequence the history had just before that perform, an evicted record
\* included.
UndoAfterPerformRestores ==
    [][(Succeeded("perform") /\ lastOp' = "undo")
         => (outcome'.status = "ok" /\ history' = pre.history)]_vars

\* a perform on a full history (the oldest record was evicted) has just been
\* undone: the restored history differs from the one the perform left
UndoAfterEvictingPerform ==
    /\ Succeeded("undo")
    /\ pre.op = "perform"
    /\ config.max_history_size >= 1
    /\ Len(history) = config.max_history_size
    /\ Len(pre.history) = config.max_history_size
    /\ history # pre.history

\* C4: a redo issued right after a successful undo restores the record
\* sequence the history had before that undo, and moves the restored
\* snapshot from the redo stack back onto the undo stack.
RedoAfterUndoRestores ==
    [][(Succeeded("undo") /\ lastOp' = "redo")
         => /\ outcome'.status = "ok"
            /\ history' = pre.history
            /\ caretaker'.redo_stack = Front(caretaker.redo_stack)
            /\ caretaker'.undo_stack =
                 Append(caretaker.undo_stack, Last(caretaker.redo_stack))
            /\ Last(caretaker'.undo_stack) = history']_vars

\* a redo has just brought back a history that the undo before it had
\* replaced by a different one
RedoAfterUndoDone ==
    /\ Succeeded("redo")
    /\ pre.op = "undo"
    /\ history # pre.history
    /\ Len(caretaker.undo_stack) = pre.undo_depth + 1
    /\ Len(caretaker.redo_stack) = pre.redo_depth - 1

\* C5: after any perform that passed validation (it called save_state) the
\* redo stack is empty: can_redo() is false and a redo fails with "Nothing
\* to redo", whatever undos came before.
SaveStateEmptiesRedo ==
    [][/\ (lastOp' = "perform" /\ outcome'.status # "ValidationError")
            => (~can_redo(caretaker') /\ caretaker'.redo_stack = <<>>)
       /\ (lastOp = "perform" /\ outcome.status # "ValidationError"
             /\ lastOp' = "redo")
            => /\ outcome' = Outcome("HistoryError", "Nothing to redo", 0)
               /\ UNCHANGED <<history, caretaker>>]_vars

\* a perform passed validation after calculations had been undone
SavedStateAfterUndo ==
    /\ lastOp = "perform"
    /\ outcome.status # "ValidationError"
    /\ pre.op = "undo"
    /\ pre.redo_depth > 0
    /\ Len(caretaker.undo_stack) = pre.undo_depth + 1

\* C6: a perform that fails with a validation error or an operation error
\* leaves the record sequence of the history unchanged and invokes no
\* observer.
FailedPerformKeepsHistory ==
    (lastOp = "perform" /\ outcome.status \in {"ValidationError", "OperationError"})
        => (history = pre.history /\ notified = <<>>)

\* a division by zero was refused on a history that holds records
DivisionByZeroRefused ==
    /\ lastOp = "perform"
    /\ outcome = Outcome("OperationError", "Cannot divide by zero", 0)
    /\ history # <<>>

\* C7: a perform whose operation fails leaves the undo stack as it was, in
\* depth and in contents.
FailedOperationKeepsUndoStack ==
    [][(lastOp' = "perform" /\ outcome'.status = "OperationError")
         => caretaker'.undo_stack = caretaker.undo_stack]_vars

\* C8: a perform that fails in the operation step leaves exactly one more
\* undo-stack entry, equal to the unchanged current history, and an undo
\* right after it succeeds and leaves the record sequence unchanged.
FailedOperationLeavesCheckpoint ==
    [][/\ (lastOp' = "perform" /\ outcome'.status = "OperationError")
            => /\ caretaker'.undo_stack = Append(caretaker.undo_stack, history)
               /\ history' = history
       /\ (lastOp = "perform" /\ outcome.status = "OperationError"
             /\ lastOp' = "undo")
            => /\ outcome'.status = "ok"
               /\ history' = history
               /\ caretaker'.undo_stack = Front(caretaker.undo_stack)]_vars

\* an undo has just consumed the checkpoint of a perform whose operation
\* failed, on a history that holds records
UndoAfterFailedOperation ==
    /\ Succeeded("undo")
    /\ pre.op = "OperationError"
    /\ history # <<>>
    /\ history = pre.history
    /\ Len(caretaker.undo_stack) = pre.undo_depth - 1

\* C9: a perform that fails validation changes nothing: history, undo stack
\* and redo stack are as before the call.
InvalidPerformChangesNothing ==
    [][(lastOp' = "perform" /\ outcome'.status = "ValidationError")
         => (UNCHANGED <<history, caretaker, file>> /\ notified' = <<>>)]_vars

\* operand_a passed and operand_b was out of range, with records in the
\* history and a snapshot on the redo stack
SecondOperandRejected ==
    /\ lastOp = "perform"
    /\ outcome = Outcome("ValidationError", "operand_b exceeds maximum allowed value", 0)
    /\ history # <<>>
    /\ can_redo(caretaker)

\* C10: undo on an empty undo stack fails with "Nothing to undo" and leaves
\* the undo stack, the redo stack and the history unchanged.
UndoOnEmptyStackFails ==
    [][(lastOp' = "undo" /\ ~can_undo(caretaker))
         => /\ outcome' = Outcome("HistoryError", "Nothing to undo", 0)
            /\ UNCHANGED <<history, caretaker>>]_vars

\* an undo was refused while the redo stack and the history held something
UndoRefused ==
    /\ lastOp = "undo"
    /\ outcome = Outcome("HistoryError", "Nothing to undo", 0)
    /\ can_redo(caretaker)
    /\ history # <<>>
\* C11: redo on an empty redo stack (nothing was undone, or a state was saved
\* since the last undo) fails with "Nothing to redo" and leaves the undo
\* stack, the redo stack and the history unchanged.
RedoOnEmptyStackFails ==
    [][(lastOp' = "redo" /\ ~can_redo(caretaker))
         => /\ outcome' = Outcome("HistoryError", "Nothing to redo", 0)
            /\ UNCHANGED <<history, caretaker>>]_vars

\* a redo was refused while the undo stack and the history held something
RedoRefused ==
    /\ lastOp = "redo"
    /\ outcome = Outcome("HistoryError", "Nothing to redo", 0)
    /\ can_undo(caretaker)
    /\ history # <<>>
Min(m, n) == IF m < n THEN m ELSE n

\* the record a perform called with these arguments appends, given the
\* result it returned
Requested(operation_name, operand_a, operand_b) ==
    Calculation(operation_name, operand_a.val, operand_b.val, outcome'.value)

\* the last n elements of s
LastRecords(s, n) == SubSeq(s, Len(s) - n + 1, Len(s))

\* what C12 says of one perform step: on success the count is
\* min(count + 1, max_size) and the history is the old one with the requested
\* record appended as its last element, cut at the front to that count; on
\* failure the count is as before
CountFollowsSuccess ==
    IF outcome'.status = "ok"
    THEN /\ Len(history') = Min(Len(history) + 1, config.max_history_size)
         /\ \A operation_name \in OperationNames, operand_a \in OperandsA,
               operand_b \in OperandsB :
                 perform_calculation(operation_name, operand_a, operand_b)
                    => history' = LastRecords(
                          Append(history,
                                 Requested(operation_name, operand_a, operand_b)),
                          Len(history'))
    ELSE Len(history') = Len(history)

\* C12: the history count increments only on success: a successful perform
\* appends exactly one record (the requested operation, the two validated
\* operands, the returned result) as the last element, so the count becomes
\* min(count + 1, max_size); a failed perform leaves the count unchanged.
CountIncrementsOnlyOnSuccess ==
    [][lastOp' = "perform" => CountFollowsSuccess]_vars

\* the same, of the perform steps that start with a history within its bound
CountIncrementsWithinBound ==
    [][(lastOp' = "perform" /\ Len(history) <= config.max_history_size)
         => CountFollowsSuccess]_vars

\* a perform succeeded on a history of two records that was at its bound: the
\* older record went, the other moved to the front, the new record is last
PerformSucceededAtCapacity ==
    /\ Succeeded("perform")
    /\ config.max_history_size = 2
    /\ Len(pre.history) = 2
    /\ history = <<pre.history[2],
                   Calculation("divide", 1, 2, outcome.value)>>
    /\ pre.history[1] # pre.history[2]
    /\ history[1] # history[2]

\* C14: every registered observer is invoked exactly once per successful
\* perform, in registration order, with the new record, and only after that
\* record has been appended to the history; no observer is invoked by undo,
\* redo, clear_history, save or load.
ObserversNotifiedOncePerSuccess ==
    IF Succeeded("perform")
    THEN /\ [i \in 1..Len(notified) |-> notified[i].observer] = heap.observers
         /\ \A i \in 1..Len(notified) :
               /\ notified[i].calculation.result = outcome.value
               /\ notified[i].history = history
               /\ config.max_history_size >= 1
                    => Last(notified[i].history) = notified[i].calculation
    ELSE lastOp # "perform" => notified = <<>>

\* both observers ran on a perform that evicted a record, and the file the
\* second one wrote holds the new record
BothObserversNotified ==
    /\ Succeeded("perform")
    /\ Len(notified) = 2
    /\ pre.history # <<>>
    /\ history # pre.history
    /\ file = CsvFile(save_to_csv(history))
    /\ Last(history) = notified[2].calculation

\* C15: a failure inside the logging observer or the auto-persist observer
\* is swallowed and never surfaced: when the logger or the history save
\* fails during notification, perform still returns the result and every
\* observer registered after the failing one is still invoked.
ObserverFailureSwallowed ==
    (lastOp = "perform" /\ notified # <<>>)
        => /\ outcome.status = "ok"
           /\ [i \in 1..Len(notified) |-> notified[i].observer] = heap.observers

\* C21: clear_history empties the history and both snapshot stacks and
\* leaves max_size unchanged: right after it the count is 0, can_undo() and
\* can_redo() are false, and both undo and redo fail, so a clear cannot be
\* undone.
ClearEmptiesEverything ==
    [][/\ lastOp' = "clear"
            => /\ Len(history') = 0
               /\ ~can_undo(caretaker') /\ ~can_redo(caretaker')
               /\ config'.max_history_size = config.max_history_size
       /\ (lastOp = "clear" /\ lastOp' = "undo")
            => /\ outcome' = Outcome("HistoryError", "Nothing to undo", 0)
               /\ history' = <<>>
       /\ (lastOp = "clear" /\ lastOp' = "redo")
            => /\ outcome' = Outcome("HistoryError", "Nothing to redo", 0)
               /\ history' = <<>>]_vars

\* a clear has just run on a session that held records, a snapshot to undo
\* and a snapshot to redo
ClearedFullSession ==
    /\ lastOp = "clear"
    /\ pre.history # <<>>
    /\ pre.undo_depth > 0
    /\ pre.redo_depth > 0
    /\ history = <<>>

\* C31: a perform that passes validation but fails in the operation step
\* empties the redo stack and leaves the history as it was: when
\* calculations had been undone before it, can_redo() is false afterwards
\* and a redo issued right after it fails with "Nothing to redo".
FailedOperationEmptiesRedo ==
    /\ (lastOp = "perform" /\ outcome.status = "OperationError")
          => /\ caretaker.redo_stack = <<>>
             /\ ~can_redo(caretaker)
             /\ history = pre.history
    /\ (lastOp = "redo" /\ pre.op = "OperationError")
          => /\ outcome = Outcome("HistoryError", "Nothing to redo", 0)
             /\ history = pre.history

\* an operation failed in a perform that followed an undo
OperationFailedAfterUndo ==
    /\ lastOp = "perform"
    /\ outcome.status = "OperationError"
    /\ pre.op = "undo"
    /\ pre.redo_depth > 0
    /\ caretaker.redo_stack = <<>>
    /\ history = pre.history

\* the depths of the undo stack and of the redo stack
Depths(undo_depth, redo_depth) ==
    /\ Len(caretaker.undo_stack) = undo_depth
    /\ Len(caretaker.redo_stack) = redo_depth

\* C33: a successful undo takes one snapshot off the undo stack and puts one
\* on the redo stack, a successful redo does the reverse, so both conserve
\* the number of stored snapshots; the total changes only in save_state (a
\* perform that passed validation: undo stack one deeper, redo stack empty)
\* and in clear (both empty); every other call leaves both depths alone.
UndoRedoConserveSnapshots ==
    CASE Succeeded("undo") -> Depths(pre.undo_depth - 1, pre.redo_depth + 1)
      [] Succeeded("redo") -> Depths(pre.undo_depth + 1, pre.redo_depth - 1)
      [] lastOp = "perform" /\ outcome.status # "ValidationError" ->
            Depths(pre.undo_depth + 1, 0)
      [] lastOp = "clear" -> Depths(0, 0)
      [] OTHER -> Depths(pre.undo_depth, pre.redo_depth)

\* a redo moved a snapshot back while another stayed on the undo stack
RedoMovedSnapshotBack ==
    /\ Succeeded("redo")
    /\ pre.undo_depth = 1 /\ pre.redo_depth = 1
    /\ Depths(2, 0)

\* C34: load, successful or failed, and save leave the undo stack and the
\* redo stack as they were and push no checkpoint. The checkpoint a perform
\* pushed is the history that preceded it, so after a perform and then a
\* load, an undo succeeds, replaces the loaded contents with the history that
\* preceded the perform, and puts the loaded contents on top of the redo
\* stack.
LoadAndSaveLeaveStacks ==
    [][/\ lastOp' \in {"load", "save"} => caretaker' = caretaker
       /\ (lastOp' = "perform" /\ outcome'.status # "ValidationError")
            => Last(caretaker'.undo_stack) = history
       /\ (lastOp = "load" /\ pre.op \in {"perform", "OperationError"}
             /\ lastOp' = "undo")
            => /\ outcome'.status = "ok"
               /\ history' = Last(caretaker.undo_stack)
               /\ Last(caretaker'.redo_stack) = history
               /\ caretaker'.undo_stack = Front(caretaker.undo_stack)]_vars

\* an undo has just replaced the contents a load brought in
UndoAfterLoad ==
    /\ Succeeded("undo")
    /\ pre.op = "load"
    /\ config.max_history_size >= 1
    /\ pre.history = load_from_csv(FoundFile.rows, config.max_history_size)
    /\ history # pre.history
    /\ Last(caretaker.redo_stack) = pre.history

\* the invocations of the auto-save observer made by the last operation
AutoSaveInvocations ==
    {i \in 1..Len(notified) : notified[i].observer = "AutoSaveObserver"}

\* C29: with the auto-save observer registered, a successful perform invokes
\* it once; when the perform leaves the history non-empty and the save does
\* not fail, the file holds the rows of exactly the records of the history,
\* the new one included, in order; when the history is empty the observer
\* does not call save_to_csv, and the file is as it was.
AutoSaveWritesCurrentHistory ==
    (Succeeded("perform") /\ config.auto_save) =>
        /\ Cardinality(AutoSaveInvocations) = 1
        /\ \A i \in AutoSaveInvocations :
              /\ history = <<>> => ~notified[i].saved
              /\ (history # <<>> /\ "disk" \notin faults)
                    => /\ notified[i].saved
                       /\ file = CsvFile(save_to_csv(history))
                       /\ Len(file.rows) = Len(history)
                       /\ file.rows[Len(history)].result = Num(outcome.value)

AutoSavedOverFoundFile ==
    /\ Succeeded("perform") /\ config.auto_save
    /\ pre.history = <<>>
    /\ Len(history) = 1
    /\ \E i \in AutoSaveInvocations : notified[i].saved
    /\ file = CsvFile(save_to_csv(history))
    /\ file.rows # FoundFile.rows

----------------------------------------------------------------------------
(* Properties of the objects                                               *)

\* the live list and the snapshot lists are different objects, and no
\* Calculation object is an element of two of them
NoSharing(h) ==
    LET held == <<h.live>> \o h.undo \o h.redo
    IN  \A i, j \in 1..Len(held) :
            i # j => /\ held[i] # held[j]
                     /\ Range(h.lists[held[i]]) \cap Range(h.lists[held[j]]) = {}

\* C22: no snapshot held on the undo or redo stack ever aliases a record or
\* the record list of the live history or of another snapshot: after
\* save_state, undo or redo, mutating the live history (append, evict, clear,
\* changing a record's fields) or the list returned by undo/redo changes no
\* stored snapshot.
SnapshotsNeverAliased ==
    [][/\ NoSharing(heap')
       /\ lastOp' \in {"set_result", "clear_store"} => caretaker' = caretaker
       /\ lastOp' = "perform"
            => caretaker'.undo_stack = Append(caretaker.undo_stack, history)]_vars

\* a record of the list that an undo returned was changed while the snapshot
\* of that very history sat on the redo stack, and the snapshot kept the old
\* value
ChangedRecordOfRestoredList ==
    /\ lastOp = "set_result"
    /\ can_undo(caretaker)
    /\ can_redo(caretaker)
    /\ history # <<>>
    /\ Last(caretaker.redo_stack) # <<>>
    /\ Last(caretaker.redo_stack)[1].result # history[1].result

----------------------------------------------------------------------------
(* Properties of the history store                                         *)

\* the add_calculation that just ran found the store holding max_size records
AddedAtCapacity ==
    lastOp = "add" /\ Len(pre.history) = config.max_history_size

\* the store is the old one without its record at index 0, the other
\* records in their order, and the added record last
OldestEvicted ==
    \E calculation \in StoreRecords :
        /\ calculation.result = outcome.value
        /\ history = Tail0(pre.history) \o <<calculation>>

\* C13: appending to a history that already holds max_size records evicts
\* exactly the oldest record (index 0) and keeps all other records in their
\* insertion order with the new record last; for max_size = 2, appending
\* R1, R2, R3 yields [R2, R3].
AppendAtCapacityEvictsOldest == AddedAtCapacity => OldestEvicted

\* C13 (amended): the same for max_size >= 1; a store of max_size 0 evicts
\* the appended record itself.
AppendAtCapacityEvictsOldestBounded ==
    (AddedAtCapacity /\ config.max_history_size >= 1) => OldestEvicted

\* max_size = 2 and R1, R2, R3 were appended: the store holds [R2, R3]
ThirdAppendOfTwo ==
    LET R1 == calculation_execute("divide", 2, 2)
        R2 == calculation_execute("int_divide", 2, 2)
        R3 == calculation_execute("abs_diff", 2, 2)
    IN  /\ config.max_history_size = 2
        /\ lastOp = "add"
        /\ pre.op = "add"
        /\ pre.history = <<R1, R2>>
        /\ history = <<R2, R3>>
\* C16: save then load on a non-empty history reproduces the same count and
\* the same (operation, operand_a, operand_b, result) tuples in the original
\* order, for records of each operation, provided the count is at most the
\* loader's max_size.
SaveThenLoadReproduces ==
    (/\ lastOp = "load"
     /\ pre.op = "save"
     /\ pre.history # <<>>
     /\ Len(pre.history) <= config.max_history_size)
        => (outcome.status = "ok" /\ history = pre.history)

\* C17: the serialized operation field is the lowercase registry name: a
\* record built from create(n) is written with operation = n, so create on
\* the written name yields the same operation kind.
SerializedNameIsRegistryName ==
    Succeeded("save")
        => \A i \in 1..Len(history) :
              /\ file.rows[i].operation = history[i].operation
              /\ create_operation(file.rows[i].operation).ok
              /\ create_operation(file.rows[i].operation).operation
                    = history[i].operation
\* a row that names a registered operation and whose operands, result and
\* timestamp parse
Parsable(row) ==
    /\ row.operation \in _operations
    /\ row.operand_a.numeric /\ row.operand_b.numeric /\ row.result.numeric
    /\ row.timestamp

\* the records of the parsable rows of the file, in file order
ParsableRecords ==
    LET good == SelectSeq(file.rows, Parsable)
    IN  [i \in 1..Len(good) |->
            Calculation(good[i].operation, good[i].operand_a.val,
                        good[i].operand_b.val, good[i].result.val)]

\* the last n elements of s
LastN(s, n) == SubSeq(s, Len(s) - n + 1, Len(s))

\* C18: load is lenient per row: a row with an unrecognized operation or an
\* unparsable operand, result or timestamp is skipped without raising, every
\* other row of the file is still loaded, in file order (as far as max_size
\* admits), and the loaded rows replace the previous contents.
LoadSkipsBadRows ==
    (lastOp = "load" /\ file.status = "ok")
        => /\ outcome.status = "ok"
           /\ \E n \in 0..Len(ParsableRecords) : history = LastN(ParsableRecords, n)
           /\ Len(ParsableRecords) <= config.max_history_size
                => history = ParsableRecords

\* a file with rows that do not parse was loaded over a store that held
\* other records: the store holds the two rows that parse, and only them
LoadedAroundBadRows ==
    /\ Succeeded("load")
    /\ file = FoundFile
    /\ Len(pre.history) = 2
    /\ pre.history[1].operation = "abs_diff"
    /\ history = <<Calculation("divide", 2, 2, 1), Calculation("divide", 1, 2, 0)>>

\* C19: after a load of a file with k parsable rows into a store of bound
\* max_size, the store holds exactly the last min(k, max_size) parsable rows
\* in file order, for every max_size >= 0.
LoadKeepsLastRows ==
    (lastOp = "load" /\ file.status = "ok")
        => history = LastN(ParsableRecords,
                           Min(Len(ParsableRecords), config.max_history_size))

\* C35: a load that fails, because the file does not exist or cannot be
\* read or parsed as a whole, raises a HistoryError and leaves the records
\* of the store exactly as they were; the previous contents are replaced
\* only by a load that has read the file.
FailedLoadKeepsRecords ==
    lastOp = "load" =>
        IF file.status = "ok"
        THEN /\ outcome.status = "ok"
             /\ history = load_from_csv(file.rows, config.max_history_size)
        ELSE /\ outcome.status = "HistoryError"
             /\ outcome.msg = IF file.status = "absent"
                              THEN "History file not found"
                              ELSE "Failed to load history from CSV"
             /\ history = pre.history

\* a load of a file that cannot be read failed on a store that holds records
LoadOfUnreadableFileFailed ==
    /\ lastOp = "load"
    /\ file = Unreadable
    /\ outcome.status = "HistoryError"
    /\ history # <<>>
    /\ history = pre.history

\* C20: save on an empty history fails with "No history to save" before
\* anything is written: the file is neither created nor truncated, so a load
\* after it sees the file content that was there before.
SaveOfEmptyHistoryWritesNothing ==
    [][(lastOp' = "save" /\ history = <<>>)
         => /\ outcome' = Outcome("HistoryError", "No history to save", 0)
            /\ file' = file]_vars

\* a save was refused on a store emptied by clear while the file written
\* before still holds its rows
SaveRefusedOverWrittenFile ==
    /\ lastOp = "save"
    /\ outcome = Outcome("HistoryError", "No history to save", 0)
    /\ pre.op = "clear"
    /\ history = <<>>
    /\ file.status = "ok"
    /\ file # FoundFile
    /\ file.rows # <<>>


----------------------------------------------------------------------------
(* Properties of the operations, the factory and the validators            *)

\* an execute call that has returned or raised
Executed(operation) ==
    call.fn = "execute" /\ call.done /\ call.name = operation

\* a perform call that has returned or raised, on operands that passed
\* validation
PerformedValid ==
    /\ call.fn = "perform" /\ call.done
    /\ Validation(call.a, call.b, config.max_input_value) = ""

\* the operations that divide by their second operand
ZeroDivisorOperations == {"divide", "int_divide", "modulus", "percent"}

\* C23: for every operand a, divide, int_divide, modulus and percent applied
\* to (a, 0) raise an OperationError and return no value; a perform of one of
\* them with operand_b = 0 ends with that error and appends no record.
ZeroDivisorAlwaysFails ==
    /\ \A operation \in ZeroDivisorOperations :
          (Executed(operation) /\ call.b = 0)
             => (~call.value.ok /\ call.value.error = "OperationError")
    /\ (PerformedValid /\ call.name \in ZeroDivisorOperations /\ call.b.val = 0)
          => /\ outcome.status = "OperationError"
             /\ history = pre.history
             /\ Len(history) = 0

PerformedPercentOfZero ==
    /\ PerformedValid
    /\ call.name = "percent" /\ call.a = Num(2) /\ call.b = Num(0)
    /\ outcome.status = "OperationError"
    /\ history = <<>>


\* a call that raised this error with this message
Raised(error, msg) ==
    ~call.value.ok /\ call.value.error = error /\ call.value.msg = msg

\* C24: the root operation raises its invalid-root errors for every a when
\* b = 0 ("Cannot calculate 0th root") and for every a < 0 when b is an even
\* whole number, positive or negative ("Cannot calculate even root of
\* negative number"); with a < 0 and b = 0 it is the zeroth-root error.
RootRejectsZerothAndEvenOfNegative ==
    Executed("root") =>
        /\ call.b = 0 => Raised("OperationError", "Cannot calculate 0th root")
        /\ (call.b # 0 /\ call.a < 0 /\ call.b % 2 = 0)
              => Raised("OperationError",
                        "Cannot calculate even root of negative number")

ZerothRootOfNegative ==
    /\ Executed("root") /\ call.a = -4 /\ call.b = 0
    /\ Raised("OperationError", "Cannot calculate 0th root")


\* C25: the power operation either returns the real value a ** b or raises
\* its operation-failed OperationError, and nothing else: it returns no
\* value that is not real and raises no other kind of error, and a negative
\* base to an exponent that is no whole number raises the OperationError.
PowerIsRealOrOperationFailed ==
    Executed("power") =>
        /\ \/ call.value.ok /\ call.value.kind = "real"
           \/ Raised("OperationError", "Power operation failed")
        /\ (call.value.ok /\ call.b_den = 1 /\ call.b >= 0)
              => (call.value.num = IPow(call.a, call.b) /\ call.value.den = 1)
        /\ (call.a < 0 /\ call.b_den # 1)
              => Raised("OperationError", "Power operation failed")


\* C26: for b # 0 the integer division returns the floor of a / b, rounding
\* toward negative infinity: its whole result q has b * q <= a < b * q + b
\* when b > 0 and b * q >= a > b * q + b when b < 0; int_divide(-7, 2) = -4.
IntDivideIsFloor ==
    (Executed("int_divide") /\ call.b # 0) =>
        LET q == call.value.num
        IN  /\ call.value.ok /\ call.value.kind = "real" /\ call.value.den = 1
            /\ call.b > 0 => (call.b * q <= call.a /\ call.a < call.b * q + call.b)
            /\ call.b < 0 => (call.b * q >= call.a /\ call.a > call.b * q + call.b)
            /\ (call.a = -7 /\ call.b = 2) => q = -4

IntDividedMinusSevenByTwo ==
    /\ Executed("int_divide") /\ call.a = -7 /\ call.b = 2
    /\ call.value.ok /\ call.value.num = -4

\* text is a spelling of the registry name in some mix of lower and upper case
IsCasingOf(text, name) ==
    /\ Len(text) = Len(Spelling(name))
    /\ \A i \in 1..Len(text) :
          text[i] \in {Spelling(name)[i], Upper(Spelling(name)[i])}

\* C27: create_operation is case-insensitive and total over exactly the ten
\* registry names: handed any casing of one of them it returns that
\* operation, handed any other name it raises the unknown-operation error.
CreateIsCaseInsensitiveAndTotal ==
    (call.fn = "create_operation" /\ call.done) =>
        LET spelled == {name \in _operations : IsCasingOf(call.name, name)}
        IN  IF spelled # {}
            THEN call.value.ok /\ spelled = {call.value.operation}
            ELSE Raised("OperationError", "Unknown operation")

CreatedFromMixedCase ==
    /\ call.fn = "create_operation" /\ call.done
    /\ call.name = <<"I", "n", "T", "_", "d", "I", "V", "i", "d", "E">>
    /\ call.value.ok /\ call.value.operation = "int_divide"

\* an absolute difference of two floats was taken
ExecutedOnFloats == call.fn = "execute_on_floats" /\ call.done

\* C28: the absolute difference has no failure mode and returns |a - b|: for
\* all a, b the result is non-negative, is the same for (a, b) and (b, a),
\* and is 0 exactly when a = b.
AbsDiffIsDistance ==
    ExecutedOnFloats =>
        /\ float_ge_zero(call.value)
        /\ float_eq(call.value, AbsDiffOperation_on_floats(call.b, call.a))
        /\ float_eq(call.value, Finite(0)) <=> float_eq(call.a, call.b)

\* C28 (amended): the absolute difference never fails; for all finite a, b
\* the result is |a - b|, non-negative, the same for (a, b) and (b, a), and 0
\* exactly when a = b. If an operand is NaN, or both are the same infinity,
\* the result is NaN; if otherwise an operand is infinite, it is +infinity.
AbsDiffIsDistanceOfFinite ==
    /\ Executed("abs_diff") =>
          /\ call.value.ok /\ call.value.kind = "real" /\ call.value.den = 1
          /\ call.value.num >= 0
          /\ call.value.num \in {call.a - call.b, call.b - call.a}
          /\ call.value = execute("abs_diff", call.b, call.a)
          /\ call.value.num = 0 <=> call.a = call.b
    /\ ExecutedOnFloats =>
          LET a == call.a
              b == call.b
          IN  IF a.class = "finite" /\ b.class = "finite"
              THEN /\ call.value.class = "finite"
                   /\ call.value.val \in {a.val - b.val, b.val - a.val}
                   /\ float_ge_zero(call.value)
                   /\ float_eq(call.value, AbsDiffOperation_on_floats(b, a))
                   /\ float_eq(call.value, Finite(0)) <=> float_eq(a, b)
              ELSE IF \/ "nan" \in {a.class, b.class}
                      \/ (a.class = "inf" /\ a = b)
                   THEN call.value = NaN
                   ELSE call.value = Infinity(1)

\* the absolute difference of the floats -3 and 4 was taken: 7
AbsDiffOfSmallerAndLarger ==
    /\ ExecutedOnFloats /\ call.a = Finite(-3) /\ call.b = Finite(4)
    /\ call.value = Finite(7)

\* r, a whole count of 10^-precision, is the ratio num/den (den > 0) rounded
\* to `precision` decimals: nearest count, a tie going to the even one
IsRounded(num, den, precision, r) ==
    LET n == num * Pow10(precision)
    IN  /\ 2 * Abs(n - r * den) <= den
        /\ 2 * Abs(n - r * den) = den => r % 2 = 0

\* C36: the value a successful perform returns is the operation's result
\* rounded to the configured precision; the record appended to the history
\* holds that same value as its result, and so does the calculation every
\* observer is handed; no record of the history holds another value.
PerformReturnsRoundedResult ==
    (PerformedValid /\ outcome.status = "ok") =>
        LET a == call.a.val
            b == call.b.val
            raw == execute(call.name, a, b)
        IN  /\ raw.ok
            /\ IsRounded(raw.num, raw.den, config.precision, outcome.value)
            /\ [i \in 1..Len(notified) |-> notified[i].observer] = heap.observers
            /\ \A i \in 1..Len(notified) :
                  notified[i].calculation = Calculation(call.name, a, b, outcome.value)
            /\ \A i \in 1..Len(history) : history[i].result = outcome.value
            /\ config.max_history_size >= 1
                  => history = <<Calculation(call.name, a, b, outcome.value)>>

\* a division whose quotient -1/2 lies between two whole values was
\* performed and its record kept
PerformedRoundedDivision ==
    /\ PerformedValid /\ outcome = Outcome("ok", "", 0)
    /\ call.name = "divide" /\ call.a = Num(-1) /\ call.b = Num(2)
    /\ history = <<Calculation("divide", -1, 2, 0)>>

\* C37: IntegerDivide and Modulus are consistent: for every operand a and
\* every divisor b other than zero, a = b * IntegerDivide(a, b) + Modulus(a, b),
\* and Modulus(a, b) is zero or has the sign of b, and is smaller than b in
\* absolute value.
ModulusConsistentWithIntDivide ==
    (Executed("modulus") /\ call.b # 0) =>
        LET m == call.value.num
            quotient == execute("int_divide", call.a, call.b)
        IN  /\ call.value.ok /\ call.value.kind = "real" /\ call.value.den = 1
            /\ quotient.ok /\ quotient.den = 1
            /\ call.a = call.b * quotient.num + m
            /\ m = 0 \/ (m > 0) = (call.b > 0)
            /\ Abs(m) < Abs(call.b)

\* the remainder of 7 by -2 was taken: -1, with the quotient -4
ModulusOfSevenByMinusTwo ==
    /\ Executed("modulus") /\ call.a = 7 /\ call.b = -2
    /\ call.value.ok /\ call.value.num = -1
    /\ execute("int_divide", 7, -2).num = -4

\* C30: the range check rejects a value exactly when its absolute value is
\* strictly greater than the maximum: a perform on two numbers ends with the
\* ValidationError of operand_a when |operand_a| > max (whatever operand_b
\* is), with that of operand_b when only |operand_b| > max, and with no
\* ValidationError when both lie within -max..max, the two limits included.
RangeCheckIsStrict ==
    (/\ call.fn = "perform" /\ call.done
     /\ validate_number(call.a) /\ validate_number(call.b)) =>
        LET max_value == config.max_input_value
            a == call.a.val
            b == call.b.val
        IN  /\ Abs(a) > max_value
                 => outcome = Outcome("ValidationError",
                                      "operand_a exceeds maximum allowed value", 0)
            /\ (Abs(a) <= max_value /\ Abs(b) > max_value)
                 => outcome = Outcome("ValidationError",
                                      "operand_b exceeds maximum allowed value", 0)
            /\ (Abs(a) <= max_value /\ Abs(b) <= max_value)
                 => outcome.status # "ValidationError"

PerformedAtBothLimits ==
    /\ call.fn = "perform" /\ call.done /\ call.name = "add"
    /\ call.a = Num(config.max_input_value)
    /\ call.b = Num(-config.max_input_value)
    /\ outcome = Outcome("ok", "", 0)


----------------------------------------------------------------------------
(* Properties of undo and redo in a row                                    *)

\* C32: for any k >= 1 and any state whose undo stack holds at least k
\* snapshots, k undos in a row followed by k redos in a row all succeed and
\* leave the history's records and the redo stack exactly as they were
\* before the first undo.
UndosThenRedosRestore ==
    (call.fn = "undo_redo" /\ call.done) =>
        /\ outcome.status = "ok"
        /\ history = call.history
        /\ caretaker.redo_stack = call.redo_stack

\* two undos and two redos have run on a history that holds a record
TwoUndosTwoRedosDone ==
    /\ call.fn = "undo_redo" /\ call.done
    /\ call.k = 2
    /\ call.history # <<>>
    /\ history = call.history

====
